---- MODULE Spec2Model ----
(***************************************************************************)
(* Model of the browser supervisor and CDP screenshot client.              *)
(*                                                                         *)
(*   captureScreenshotPng  (src/src/browser/cdp.ts)                        *)
(*   stopClawdChrome       (src/unnamed/part_000)                          *)
(*                                                                         *)
(* captureScreenshotPng is an async function: its body between two awaits  *)
(* is one step (a promise continuation), and every WebSocket event handler *)
(* is one step.  The WebSocket (package ws, version 8) and the child       *)
(* process (node:child_process) are the environment.                       *)
(***************************************************************************)
EXTENDS Integers, Sequences, FiniteSets, TLC

VARIABLES
    conns,        \* the Capture calls (one WebSocket each) of this run
    fullPage,     \* opts.fullPage of each call
    wsState,      \* ws.readyState: "connecting", "open", "closing", "closed"
    openPromise,  \* "pending", "resolved", "rejected"
    nextId,       \* let nextId = 1
    pending,      \* const pending = new Map<number, Pending>(): id -> promise
    log,          \* the commands handed to ws.send, in order; index = promise
    settled,      \* the promise send() returned for each command
    awaitValue,   \* the value the awaited promise was resolved with
    pc,           \* where the async function stands
    metrics,      \* local `metrics`
    clip,         \* local `clip`
    result,       \* local `result`
    thrown,       \* the error the call rejected with ("" while none)
    returned,     \* the Buffer the call resolved with
    lastDrop,     \* how the message handler dropped the last frame it dropped
    \* -- the browser process and stopClawdChrome --
    procState,    \* the OS process behind running.proc: "running", "exited"
    killed,       \* proc.killed: a signal was delivered by proc.kill()
    exitCode,     \* proc.exitCode: null until exit, null if ended by a signal
    signal,       \* the last signal delivered: "none", "SIGTERM", "SIGKILL"
    serving,      \* the process answers /json/version on the debug port
    foreign,      \* some other process answers on the debug port
    spc,          \* where stopClawdChrome stands: "idle", "probing", "sleeping"
    timeoutMs,    \* its timeoutMs, in ticks of 100 ms
    elapsed,      \* Date.now() - start, in ticks of 100 ms
    calls,        \* the calls of stopClawdChrome made so far
    entryExited,  \* the process had already exited when the call began
    polls,        \* the reachability probes the call has completed so far
    sigkillCalls, \* the proc.kill("SIGKILL") calls of the call so far
    stopHow,      \* how the last call ended
    \* -- normalizeHexColor --
    colorRaw,     \* the argument `raw`: undefined or a string
    colorOut,     \* the string the call returned
    colorDone,    \* the call has returned
    \* -- the profile directory and decorateClawdProfile --
    localState,   \* the file <userDataDir>/Local State
    preferences,  \* the file <userDataDir>/Default/Preferences
    marker,       \* the file .clawd-profile-decorated exists
    brandColor,   \* opts?.color
    brandCalls,   \* the calls of decorateClawdProfile so far
    brandRuns,    \* those of them that returned
    brandThrew,   \* the last call threw
    prior,        \* the two files as they were before the first call
    \* -- launchClawdChrome --
    lpc,          \* where launchClawdChrome stands
    launches,     \* the calls of launchClawdChrome so far
    lOutcome,     \* how the last call ended
    guard,        \* ensurePortAvailable of this call: "none", "ok", "threw"
    exe,          \* local `exe`
    needsDecorate, \* local `needsDecorate`
    markerSeen,   \* the marker existed when this call looked for it
    procs,        \* the processes this call spawned, in order
    probes,       \* the isChromeReachable calls of this call
    loopReachable, \* a probe inside the readiness loop answered true
    finalReachable, \* what the probe after the loop answered
    lBrandCalls,  \* the decorateClawdProfile calls of this call
    brandRunning, \* a process of this call was running during one of them
    prefsPolls,   \* the sleeps of the preference-file loop
    readyPolls,   \* the sleeps of the readiness loop
    markedAt      \* the call whose Brander wrote the marker (0: none)

capVars == <<conns, fullPage, wsState, openPromise, nextId, pending, log,
             settled, awaitValue, pc, metrics, clip, result, thrown, returned,
             lastDrop>>

stopVars == <<procState, killed, exitCode, signal, serving, foreign, spc,
              timeoutMs, elapsed, calls, entryExited, polls, sigkillCalls,
              stopHow>>

colorVars == <<colorRaw, colorOut, colorDone>>

brandVars == <<localState, preferences, marker, brandColor, brandCalls,
               brandRuns, brandThrew, prior>>

launchVars == <<lpc, launches, lOutcome, guard, exe, needsDecorate,
                markerSeen, procs, probes, loopReachable, finalReachable,
                lBrandCalls, brandRunning, prefsPolls, readyPolls, markedAt>>

notCapVars == <<stopVars, colorVars, brandVars, launchVars>>

notStopVars == <<capVars, colorVars, brandVars, launchVars>>

notColorVars == <<capVars, stopVars, brandVars, launchVars>>

notBrandVars == <<capVars, stopVars, colorVars, launchVars>>

notLaunchVars == <<capVars, stopVars, colorVars>>

vars == <<capVars, stopVars, colorVars, brandVars, launchVars>>

----------------------------------------------------------------------------
(* Optional values: undefined is None, a present value v is Some(v).       *)

None == <<>>
Some(v) == <<v>>
IsSome(o) == Len(o) = 1
Get(o) == o[1]

----------------------------------------------------------------------------
(* Bounds of the model.                                                    *)

\* inbound frames carry ids 0..MaxFrameId (a call sends at most 3 commands)
MaxFrameId == 4

\* stopClawdChrome is called with timeoutMs in 0..MaxTimeout ticks of 100 ms
MaxTimeout == 3

\* stopClawdChrome is called at most MaxCalls times on the same process
MaxCalls == 2

----------------------------------------------------------------------------
(* Inbound frames: what JSON.parse(String(data)) can yield.                *)

ErrorClosed == "CDP socket closed"
ErrorMissing == "Screenshot failed: missing data"

\* cssContentSize?: {width?: number, height?: number}
CssSizeVals ==
    { [width |-> Some(800), height |-> Some(600)],
      [width |-> Some(800), height |-> Some(0)],
      [width |-> None,      height |-> Some(600)] }

\* contentSize?: {width?: number, height?: number}
ContentSizeVals == { [width |-> Some(1024), height |-> Some(768)] }

\* the result objects a peer can answer with: a layout-metrics shaped object
\* (the empty object included) or a screenshot shaped one
ResultObjs ==
    [cssContentSize : {None} \cup {Some(s) : s \in CssSizeVals},
     contentSize : {None} \cup {Some(s) : s \in ContentSizeVals},
     data : {None}]
    \cup [cssContentSize : {None}, contentSize : {None},
          data : {Some(""), Some("aGVsbG8=")}]

ResultVals == {None} \cup {Some(r) : r \in ResultObjs}

\* error?: { message?: string }
ErrorVals == {None} \cup
    {Some([message |-> m]) : m \in {None, Some(""), Some("Target closed")}}

FrameIds == {None} \cup {Some(i) : i \in 0..MaxFrameId}

\* {id, result?} or {id, error}; parses = FALSE is a frame JSON.parse throws
\* on; id = None is a frame whose id is not a number
Frames ==
    [parses : {TRUE}, id : FrameIds, error : {None}, result : ResultVals]
    \cup [parses : {TRUE}, id : FrameIds, error : ErrorVals, result : {None}]
    \cup [parses : {FALSE}, id : {None}, error : {None}, result : {None}]

----------------------------------------------------------------------------
(* Promises returned by send().                                            *)

\* by: the id of the frame whose handler settled the promise, byError: that
\* frame's error field (both None when the close handler settled it)
Unsettled == [how |-> "pending", err |-> "", by |-> None, byError |-> None]

\* pending.set(id, {resolve, reject})
PendingSet(m, id, p) ==
    [k \in DOMAIN m \cup {id} |-> IF k = id THEN p ELSE m[k]]

\* pending.delete(id)
PendingDelete(m, id) == [k \in DOMAIN m \ {id} |-> m[k]]

\* (mutant) a lookup that ignores the id and takes whatever is pending
PendingGetAny(m, id) ==
    IF DOMAIN m # {} THEN Some(m[CHOOSE k \in DOMAIN m : TRUE]) ELSE None

\* pending.get(id): the promise registered under id, None when there is none
PendingGet(m, id) == IF id \in DOMAIN m THEN Some(m[id]) ELSE None

PendingClear == [k \in {} |-> 0]

\* parsed.error?.message as a condition: a non-empty message
ErrorMessageTruthy(error) ==
    /\ IsSome(error)
    /\ IsSome(Get(error).message)
    /\ Get(Get(error).message) # ""

\* ws.close(): starts the closing handshake of an open socket, nothing on a
\* closing or closed one
WsCloseCall(st) == IF st \in {"open", "connecting"} THEN "closing" ELSE st

\* (mutant) the table is cleared without rejecting its promises
RejectNone(ss, m, err) == ss

\* for (const [, p] of pending) p.reject(err)
RejectAll(ss, m, err) ==
    [i \in DOMAIN ss |->
        IF \E k \in DOMAIN m : m[k] = i /\ ss[i].how = "pending"
        THEN [ss[i] EXCEPT !.how = "rejected", !.err = err]
        ELSE ss[i]]

----------------------------------------------------------------------------
(* captureScreenshotPng: helpers of the function body.                     *)

\* Number(x ?? 0)
NumberOr0(o) == IF IsSome(o) THEN Get(o) ELSE 0

\* metrics?.cssContentSize ?? metrics?.contentSize
SizeOf(m) ==
    IF ~IsSome(m) THEN None
    ELSE IF IsSome(Get(m).cssContentSize) THEN Get(m).cssContentSize
    ELSE Get(m).contentSize

WidthOf(m) == IF IsSome(SizeOf(m)) THEN NumberOr0(Get(SizeOf(m)).width) ELSE 0

HeightOf(m) == IF IsSome(SizeOf(m)) THEN NumberOr0(Get(SizeOf(m)).height) ELSE 0

\* (mutant) width > 0 || height > 0
ClipOfEitherPositive(m) ==
    IF WidthOf(m) > 0 \/ HeightOf(m) > 0
    THEN Some([x |-> 0, y |-> 0, width |-> WidthOf(m), height |-> HeightOf(m),
               scale |-> 1])
    ELSE None

\* if (width > 0 && height > 0) clip = {x: 0, y: 0, width, height, scale: 1}
ClipOf(m) ==
    IF WidthOf(m) > 0 /\ HeightOf(m) > 0
    THEN Some([x |-> 0, y |-> 0, width |-> WidthOf(m), height |-> HeightOf(m),
               scale |-> 1])
    ELSE None

\* (mutant) the layout query is issued whatever fullPage says
MethodAfterEnableAlwaysMetrics(fp) == "Page.getLayoutMetrics"

\* the command issued once Page.enable resolved
MethodAfterEnable(fp) ==
    IF fp THEN "Page.getLayoutMetrics" ELSE "Page.captureScreenshot"

\* const base64 = result?.data
DataOf(r) == IF IsSome(r) THEN Get(r).data ELSE None

\* (mutant) base64 === undefined: an empty string passes
MissingDataUndefinedOnly(b) == ~IsSome(b)

\* !base64
MissingData(b) == ~IsSome(b) \/ Get(b) = ""

\* Buffer.from(base64, "base64")
Base64Decode(s) == CASE s = "aGVsbG8=" -> "hello" [] OTHER -> ""

\* the promise the function is awaiting: the one of the last command
Cur(c) == Len(log[c])

\* send(method, params): takes the next id, hands the frame to ws.send, which
\* transmits it on an open socket and discards it without an error on a
\* closing or closed one, and registers the promise under the id
send(c, method, clipOpt) ==
    LET id == nextId[c]
        p  == Len(log[c]) + 1
    IN  /\ nextId' = [nextId EXCEPT ![c] = id + 1]
        /\ log' = [log EXCEPT ![c] =
                     Append(@, [id |-> id, method |-> method, clip |-> clipOpt,
                                wire |-> wsState[c] = "open"])]
        /\ settled' = [settled EXCEPT ![c] = Append(@, Unsettled)]
        /\ pending' = [pending EXCEPT ![c] = PendingSet(@, id, p)]

\* an await that throws: the call rejects with the error, nothing else runs
Throw(c, err) ==
    /\ pc' = [pc EXCEPT ![c] = "failed"]
    /\ thrown' = [thrown EXCEPT ![c] = err]

----------------------------------------------------------------------------
(* The WebSocket's events.                                                 *)

\* ws.once("open", () => resolve())
WsOpen(c) ==
    /\ wsState[c] = "connecting"
    /\ wsState' = [wsState EXCEPT ![c] = "open"]
    /\ openPromise' = [openPromise EXCEPT ![c] = "resolved"]
    /\ UNCHANGED notCapVars
    /\ UNCHANGED lastDrop
    /\ UNCHANGED <<conns, fullPage, nextId, pending, log, settled, awaitValue,
                   pc, metrics, clip, result, thrown, returned>>

\* ws.once("error", (err) => reject(err)): the handshake failed or timed out;
\* the socket is on its way to closed and its close event follows
WsConnectError(c) ==
    /\ wsState[c] = "connecting"
    /\ wsState' = [wsState EXCEPT ![c] = "closing"]
    /\ openPromise' = [openPromise EXCEPT ![c] = "rejected"]
    /\ UNCHANGED notCapVars
    /\ UNCHANGED lastDrop
    /\ UNCHANGED <<conns, fullPage, nextId, pending, log, settled, awaitValue,
                   pc, metrics, clip, result, thrown, returned>>

\* the peer starts closing an open socket: no handler of the client runs
WsPeerClosing(c) ==
    /\ wsState[c] = "open"
    /\ wsState' = [wsState EXCEPT ![c] = "closing"]
    /\ UNCHANGED notCapVars
    /\ UNCHANGED lastDrop
    /\ UNCHANGED <<conns, fullPage, openPromise, nextId, pending, log, settled,
                   awaitValue, pc, metrics, clip, result, thrown, returned>>

\* (mutant) one pending table shared by all connections
closeWithErrorShared(c, err, st) ==
    /\ settled' = [x \in conns |-> RejectAll(settled[x], pending[x], err)]
    /\ pending' = [x \in conns |-> PendingClear]
    /\ wsState' = [wsState EXCEPT ![c] = WsCloseCall(st)]

\* closeWithError(err): reject every pending command, clear the table, close
closeWithError(c, err, st) ==
    /\ settled' = [settled EXCEPT ![c] = RejectAll(@, pending[c], err)]
    /\ pending' = [pending EXCEPT ![c] = PendingClear]
    /\ wsState' = [wsState EXCEPT ![c] = WsCloseCall(st)]

\* ws.on("close", () => closeWithError(new Error("CDP socket closed"))):
\* emitted once, when the socket has reached readyState CLOSED
OnClose(c) ==
    /\ wsState[c] \in {"open", "closing"}
    /\ closeWithError(c, ErrorClosed, "closed")
    /\ UNCHANGED notCapVars
    /\ UNCHANGED lastDrop
    /\ UNCHANGED <<conns, fullPage, openPromise, nextId, log, awaitValue, pc,
                   metrics, clip, result, thrown, returned>>

\* what resolve/reject make of a promise: nothing once it is settled
SettleWith(s, f) ==
    IF s.how # "pending" THEN s
    ELSE IF ErrorMessageTruthy(f.error)
    THEN [how |-> "rejected", err |-> Get(Get(f.error).message), by |-> f.id,
          byError |-> f.error]
    ELSE [how |-> "resolved", err |-> "", by |-> f.id, byError |-> f.error]

\* the value p.resolve(parsed.result) hands to the function awaiting p
ResolveValue(s, f, old) ==
    IF s.how = "pending" /\ ~ErrorMessageTruthy(f.error) THEN f.result ELSE old

\* why the handler drops frame f: JSON.parse throws ("unparseable"), parsed.id
\* is not a number ("noId"), no command is pending under the id ("unmatched");
\* "none" for a frame it acts on
DropKind(c, f) ==
    IF ~f.parses THEN "unparseable"
    ELSE IF ~IsSome(f.id) THEN "noId"
    ELSE IF Get(f.id) \notin DOMAIN pending[c] THEN "unmatched"
    ELSE "none"

\* ws.on("message", (data) => {...})
OnMessage(c, f) ==
    /\ wsState[c] \in {"open", "closing"}
    /\ IF ~f.parses \/ ~IsSome(f.id) \/ ~IsSome(PendingGet(pending[c], Get(f.id)))
       THEN UNCHANGED <<pending, settled, awaitValue>>
       ELSE LET p == Get(PendingGet(pending[c], Get(f.id))) IN
            /\ pending' = [pending EXCEPT ![c] = PendingDelete(@, Get(f.id))]
            /\ settled' = [settled EXCEPT ![c][p] = SettleWith(@, f)]
            /\ awaitValue' = [awaitValue EXCEPT ![c] =
                                ResolveValue(settled[c][p], f, @)]
    /\ lastDrop' = [lastDrop EXCEPT ![c] =
                      IF DropKind(c, f) = "none" THEN @ ELSE DropKind(c, f)]
    /\ UNCHANGED notCapVars
    /\ UNCHANGED <<conns, fullPage, wsState, openPromise, nextId, log, pc,
                   metrics, clip, result, thrown, returned>>

----------------------------------------------------------------------------
(* The body of captureScreenshotPng, one step per await.                   *)

\* await openPromise; then send("Page.enable")
ContOpen(c) ==
    /\ pc[c] = "awaitOpen"
    /\ openPromise[c] # "pending"
    /\ IF openPromise[c] = "rejected"
       THEN /\ Throw(c, "ConnectionFailed")
            /\ UNCHANGED <<nextId, log, settled, pending>>
       ELSE /\ send(c, "Page.enable", None)
            /\ pc' = [pc EXCEPT ![c] = "awaitEnable"]
            /\ UNCHANGED thrown
    /\ awaitValue' = [awaitValue EXCEPT ![c] = None]
    /\ UNCHANGED notCapVars
    /\ UNCHANGED lastDrop
    /\ UNCHANGED <<conns, fullPage, wsState, openPromise, metrics, clip, result,
                   returned>>

\* await send("Page.enable"); then the layout query or the capture command
ContEnable(c) ==
    /\ pc[c] = "awaitEnable"
    /\ settled[c][Cur(c)].how # "pending"
    /\ IF settled[c][Cur(c)].how = "rejected"
       THEN /\ Throw(c, settled[c][Cur(c)].err)
            /\ UNCHANGED <<nextId, log, settled, pending>>
       ELSE /\ send(c, MethodAfterEnable(fullPage[c]), None)
            /\ pc' = [pc EXCEPT ![c] =
                        IF MethodAfterEnable(fullPage[c]) = "Page.getLayoutMetrics"
                        THEN "awaitMetrics" ELSE "awaitCapture"]
            /\ UNCHANGED thrown
    /\ awaitValue' = [awaitValue EXCEPT ![c] = None]
    /\ UNCHANGED notCapVars
    /\ UNCHANGED lastDrop
    /\ UNCHANGED <<conns, fullPage, wsState, openPromise, metrics, clip, result,
                   returned>>

\* const metrics = await send("Page.getLayoutMetrics"); compute clip; then
\* send("Page.captureScreenshot", {..., ...(clip ? {clip} : {})})
ContMetrics(c) ==
    /\ pc[c] = "awaitMetrics"
    /\ settled[c][Cur(c)].how # "pending"
    /\ IF settled[c][Cur(c)].how = "rejected"
       THEN /\ Throw(c, settled[c][Cur(c)].err)
            /\ UNCHANGED <<nextId, log, settled, pending, metrics, clip>>
       ELSE /\ metrics' = [metrics EXCEPT ![c] = awaitValue[c]]
            /\ clip' = [clip EXCEPT ![c] = ClipOf(awaitValue[c])]
            /\ send(c, "Page.captureScreenshot", ClipOf(awaitValue[c]))
            /\ pc' = [pc EXCEPT ![c] = "awaitCapture"]
            /\ UNCHANGED thrown
    /\ awaitValue' = [awaitValue EXCEPT ![c] = None]
    /\ UNCHANGED notCapVars
    /\ UNCHANGED lastDrop
    /\ UNCHANGED <<conns, fullPage, wsState, openPromise, result, returned>>

\* const result = await send("Page.captureScreenshot"); the data check, the
\* close and the return
ContCapture(c) ==
    /\ pc[c] = "awaitCapture"
    /\ settled[c][Cur(c)].how # "pending"
    /\ IF settled[c][Cur(c)].how = "rejected"
       THEN /\ Throw(c, settled[c][Cur(c)].err)
            /\ UNCHANGED <<settled, pending, wsState, result, returned>>
       ELSE /\ result' = [result EXCEPT ![c] = awaitValue[c]]
            /\ IF MissingData(DataOf(awaitValue[c]))
               THEN /\ closeWithError(c, ErrorMissing, wsState[c])
                    /\ Throw(c, ErrorMissing)
                    /\ UNCHANGED returned
               ELSE /\ wsState' = [wsState EXCEPT ![c] = WsCloseCall(@)]
                    /\ returned' = [returned EXCEPT ![c] =
                          Some(Base64Decode(Get(DataOf(awaitValue[c]))))]
                    /\ pc' = [pc EXCEPT ![c] = "returned"]
                    /\ UNCHANGED <<settled, pending, thrown>>
    /\ awaitValue' = [awaitValue EXCEPT ![c] = None]
    /\ UNCHANGED notCapVars
    /\ UNCHANGED lastDrop
    /\ UNCHANGED <<conns, fullPage, openPromise, nextId, log, metrics, clip>>

----------------------------------------------------------------------------
(* One Capture call against an endpoint that may answer anything.          *)

CaptureInitFor(cs) ==
    /\ conns = cs
    /\ fullPage \in [cs -> BOOLEAN]
    /\ wsState = [c \in cs |-> "connecting"]
    /\ openPromise = [c \in cs |-> "pending"]
    /\ nextId = [c \in cs |-> 1]
    /\ pending = [c \in cs |-> PendingClear]
    /\ log = [c \in cs |-> <<>>]
    /\ settled = [c \in cs |-> <<>>]
    /\ awaitValue = [c \in cs |-> None]
    /\ pc = [c \in cs |-> "awaitOpen"]
    /\ metrics = [c \in cs |-> None]
    /\ clip = [c \in cs |-> None]
    /\ result = [c \in cs |-> None]
    /\ thrown = [c \in cs |-> ""]
    /\ returned = [c \in cs |-> None]
    /\ lastDrop = [c \in cs |-> "none"]

\* a browser process that is up and not being stopped
StopIdle ==
    /\ procState = "running"
    /\ killed = FALSE
    /\ exitCode = None
    /\ signal = "none"
    /\ serving = TRUE
    /\ foreign = FALSE
    /\ spc = "idle"
    /\ timeoutMs = 0
    /\ elapsed = 0
    /\ calls = 0
    /\ entryExited = FALSE
    /\ polls = 0
    /\ sigkillCalls = 0
    /\ stopHow = "none"

\* no color is being normalized
ColorIdle ==
    /\ colorRaw = None
    /\ colorOut = <<>>
    /\ colorDone = FALSE

\* a fresh profile directory nobody decorates
BrandIdle ==
    /\ localState = [state |-> "missing", tree |-> {}]
    /\ preferences = [state |-> "missing", tree |-> {}]
    /\ marker = FALSE
    /\ brandColor = None
    /\ brandCalls = 0
    /\ brandRuns = 0
    /\ brandThrew = FALSE
    /\ prior = <<localState, preferences>>

\* launchClawdChrome has not been called
LaunchIdle ==
    /\ lpc = "idle"
    /\ launches = 0
    /\ lOutcome = "none"
    /\ guard = "none"
    /\ exe = None
    /\ needsDecorate = FALSE
    /\ markerSeen = FALSE
    /\ procs = <<>>
    /\ probes = 0
    /\ loopReachable = FALSE
    /\ finalReachable = FALSE
    /\ lBrandCalls = 0
    /\ brandRunning = FALSE
    /\ prefsPolls = 0
    /\ readyPolls = 0
    /\ markedAt = 0

CaptureInit ==
    CaptureInitFor({1}) /\ StopIdle /\ ColorIdle /\ BrandIdle /\ LaunchIdle

CaptureNext ==
    \/ \E c \in conns : WsOpen(c)
    \/ \E c \in conns : WsConnectError(c)
    \/ \E c \in conns : WsPeerClosing(c)
    \/ \E c \in conns : OnClose(c)
    \/ \E c \in conns : \E f \in Frames : OnMessage(c, f)
    \/ \E c \in conns : ContOpen(c)
    \/ \E c \in conns : ContEnable(c)
    \/ \E c \in conns : ContMetrics(c)
    \/ \E c \in conns : ContCapture(c)

SpecCapture == CaptureInit /\ [][CaptureNext]_vars

\* the frames of the two-call runs: replies to commands 1 and 2 with and
\* without a payload, an error reply, and a frame without an id
FramesOfTwo ==
    [parses : {TRUE}, id : {Some(1), Some(2)}, error : {None},
     result : {None, Some([cssContentSize |-> None, contentSize |-> None,
                           data |-> Some("aGVsbG8=")])}]
    \cup [parses : {TRUE}, id : {None, Some(1)},
          error : {Some([message |-> Some("Target closed")])}, result : {None}]

\* two overlapping viewport captures, each on its own connection
CaptureTwoInit ==
    /\ CaptureInitFor({1, 2})
    /\ fullPage = [c \in {1, 2} |-> FALSE]
    /\ StopIdle
    /\ ColorIdle
    /\ BrandIdle
    /\ LaunchIdle

CaptureTwoNext ==
    \/ \E c \in conns : WsOpen(c)
    \/ \E c \in conns : WsConnectError(c)
    \/ \E c \in conns : WsPeerClosing(c)
    \/ \E c \in conns : OnClose(c)
    \/ \E c \in conns : \E f \in FramesOfTwo : OnMessage(c, f)
    \/ \E c \in conns : ContOpen(c)
    \/ \E c \in conns : ContEnable(c)
    \/ \E c \in conns : ContCapture(c)

SpecCaptureTwo == CaptureTwoInit /\ [][CaptureTwoNext]_vars

----------------------------------------------------------------------------
(* The browser process (node:child_process) and its debug endpoint.        *)

\* the probe isChromeReachable(cdpPort, 200) takes at most 200 ms = 2 ticks
ProbeTicks == 2

\* the sleep of 100 ms takes at least 1 tick
SleepTicks == 1

Min(a, b) == IF a < b THEN a ELSE b

\* proc.kill(sig) delivers the signal and sets proc.killed while the process
\* runs, and does nothing (returns false) once it has exited
KillDelivers == procState = "running"

\* !proc.exitCode: null and 0 are falsy
ExitCodeFalsy(ec) == ~IsSome(ec) \/ Get(ec) = 0

\* isChromeReachable: fetch of /json/version answered with res.ok
Reachable == foreign \/ (procState = "running" /\ serving)

\* the process exits: on its own with a code, or by a delivered signal (a
\* SIGTERM it may handle and exit 0)
ProcExit ==
    /\ procState = "running"
    /\ procState' = "exited"
    /\ serving' = FALSE
    /\ exitCode' \in
         CASE signal = "none"    -> {Some(0), Some(1)}
           [] signal = "SIGTERM" -> {None, Some(0)}
           [] signal = "SIGKILL" -> {None}
    /\ UNCHANGED <<killed, signal, foreign, spc, timeoutMs, elapsed, calls,
                   entryExited, polls, sigkillCalls, stopHow>>
    /\ UNCHANGED notStopVars

\* the process stops answering on the debug port while it still runs
EndpointDown ==
    /\ procState = "running"
    /\ serving
    /\ serving' = FALSE
    /\ UNCHANGED <<procState, killed, exitCode, signal, foreign, spc, timeoutMs,
                   elapsed, calls, entryExited, polls, sigkillCalls, stopHow>>
    /\ UNCHANGED notStopVars

----------------------------------------------------------------------------
(* stopClawdChrome(running, timeoutMs), one step per await.                *)

\* the head of the loop, with proc.killed = k, proc.exitCode = ec and
\* Date.now() - start = el: "probe" goes on to isChromeReachable, "break" and
\* "expired" leave the loop for proc.kill("SIGKILL")
LoopHead(k, ec, el, tmo) ==
    IF ~(el < tmo) THEN "expired"
    ELSE IF ExitCodeFalsy(ec) /\ k THEN "break"
    ELSE "probe"

\* try { proc.kill("SIGKILL") } catch {}, and the return; k and sig are
\* proc.killed and the last delivered signal before it
Escalate(k, sig, n) ==
    /\ spc' = "idle"
    /\ sigkillCalls' = n + 1
    /\ killed' = (k \/ KillDelivers)
    /\ signal' = IF KillDelivers THEN "SIGKILL" ELSE sig
    /\ stopHow' = "escalated"

\* the call, up to its first await
StopCall(tmo) ==
    /\ spc = "idle"
    /\ calls < MaxCalls
    /\ calls' = calls + 1
    /\ timeoutMs' = tmo
    /\ elapsed' = 0
    /\ polls' = 0
    /\ entryExited' = (procState = "exited")
    /\ IF killed
       THEN \* if (proc.killed) return
            /\ stopHow' = "immediate"
            /\ sigkillCalls' = 0
            /\ UNCHANGED <<spc, killed, signal>>
       ELSE \* try { proc.kill("SIGTERM") } catch {}; start = Date.now(); loop
            LET k   == KillDelivers
                sig == IF KillDelivers THEN "SIGTERM" ELSE signal
            IN  IF LoopHead(k, exitCode, 0, tmo) = "probe"
                THEN /\ spc' = "probing"
                     /\ killed' = k
                     /\ signal' = sig
                     /\ sigkillCalls' = 0
                     /\ stopHow' = "running"
                ELSE Escalate(k, sig, 0)
    /\ UNCHANGED <<procState, exitCode, serving, foreign>>
    /\ UNCHANGED notStopVars

\* if (!(await isChromeReachable(running.cdpPort, 200))) return
ProbeDone(d) ==
    /\ spc = "probing"
    /\ elapsed' = Min(elapsed + d, MaxTimeout)
    /\ polls' = polls + 1
    /\ IF Reachable
       THEN /\ spc' = "sleeping"
            /\ UNCHANGED stopHow
       ELSE /\ spc' = "idle"
            /\ stopHow' = "unreachable"
    /\ UNCHANGED <<procState, killed, exitCode, signal, serving, foreign,
                   timeoutMs, calls, entryExited, sigkillCalls>>
    /\ UNCHANGED notStopVars

\* await new Promise((r) => setTimeout(r, 100)), then the head of the loop
SleepDone(d) ==
    /\ spc = "sleeping"
    /\ elapsed' = Min(elapsed + d, MaxTimeout)
    /\ IF LoopHead(killed, exitCode, Min(elapsed + d, MaxTimeout), timeoutMs) = "probe"
       THEN /\ spc' = "probing"
            /\ UNCHANGED <<killed, signal, sigkillCalls, stopHow>>
       ELSE Escalate(killed, signal, sigkillCalls)
    /\ UNCHANGED <<procState, exitCode, serving, foreign, timeoutMs, calls,
                   entryExited, polls>>
    /\ UNCHANGED notStopVars

\* after a launch: the process runs and answers on its debug port; another
\* process may answer on that port too
StopInit ==
    /\ CaptureInitFor({})
    /\ ColorIdle
    /\ BrandIdle
    /\ LaunchIdle
    /\ procState = "running"
    /\ killed = FALSE
    /\ exitCode = None
    /\ signal = "none"
    /\ serving = TRUE
    /\ foreign \in BOOLEAN
    /\ spc = "idle"
    /\ timeoutMs = 0
    /\ elapsed = 0
    /\ calls = 0
    /\ entryExited = FALSE
    /\ polls = 0
    /\ sigkillCalls = 0
    /\ stopHow = "none"

StopNext ==
    \/ ProcExit
    \/ EndpointDown
    \/ \E tmo \in 0..MaxTimeout : StopCall(tmo)
    \/ \E d \in 0..ProbeTicks : ProbeDone(d)
    \/ \E d \in SleepTicks..(SleepTicks + 1) : SleepDone(d)

SpecStop == StopInit /\ [][StopNext]_vars

----------------------------------------------------------------------------
(* normalizeHexColor (src/unnamed/part_001).  A string is the sequence of  *)
(* its characters.                                                         *)

\* the longest string (without surrounding blanks) given to normalizeHexColor
MaxLen == 7

\* DEFAULT_CLAWD_BROWSER_COLOR
DefaultColor == <<"#", "F", "F", "4", "5", "0", "0">>

\* [0-9a-fA-F]
HexDigits ==
    {"0", "1", "2", "3", "4", "5", "6", "7", "8", "9",
     "a", "b", "c", "d", "e", "f", "A", "B", "C", "D", "E", "F"}

\* (mutant) toUpperCase that leaves every character as it is
ToUpperCaseChKeep(ch) == ch

\* String.prototype.toUpperCase, one character
ToUpperCaseCh(ch) ==
    CASE ch = "a" -> "A" [] ch = "b" -> "B" [] ch = "c" -> "C"
      [] ch = "d" -> "D" [] ch = "e" -> "E" [] ch = "f" -> "F"
      [] ch = "g" -> "G" [] OTHER -> ch

ToUpperCase(s) == [i \in 1..Len(s) |-> ToUpperCaseCh(s[i])]

\* white space as String.prototype.trim sees it
IsWhiteSpace(ch) == ch = " "

RECURSIVE TrimStart(_)
TrimStart(s) ==
    IF Len(s) > 0 /\ IsWhiteSpace(s[1]) THEN TrimStart(Tail(s)) ELSE s

RECURSIVE TrimEnd(_)
TrimEnd(s) ==
    IF Len(s) > 0 /\ IsWhiteSpace(s[Len(s)])
    THEN TrimEnd(SubSeq(s, 1, Len(s) - 1))
    ELSE s

\* String.prototype.trim
Trim(s) == TrimEnd(TrimStart(s))

\* value.startsWith("#")
StartsWithHash(s) == Len(s) > 0 /\ s[1] = "#"

\* /^#[0-9a-fA-F]{6}$/.test(s)
MatchesHexColor(s) ==
    /\ Len(s) = 7
    /\ s[1] = "#"
    /\ \A i \in 2..7 : s[i] \in HexDigits

normalizeHexColor(raw) ==
    LET value == Trim(IF IsSome(raw) THEN Get(raw) ELSE <<>>)
        normalized == IF StartsWithHash(value) THEN value ELSE <<"#">> \o value
    IN  IF Len(value) = 0 THEN DefaultColor
        ELSE IF ~MatchesHexColor(normalized) THEN DefaultColor
        ELSE ToUpperCase(normalized)

\* the characters the strings given to normalizeHexColor are made of
ColorAlphabet == {"#", "a", "F", "g"}

ColorCores == UNION {[1..n -> ColorAlphabet] : n \in 0..MaxLen}

\* surrounding blanks
ColorPads == {<<>>, <<" ">>}

\* `raw`: undefined, or any string of the alphabet, with or without blanks
\* around it
ColorInputs ==
    {None} \cup {Some(l \o core \o r) : l \in ColorPads, core \in ColorCores,
                                         r \in ColorPads}

NormalizeColor ==
    /\ ~colorDone
    /\ colorOut' = normalizeHexColor(colorRaw)
    /\ colorDone' = TRUE
    /\ UNCHANGED colorRaw
    /\ UNCHANGED notColorVars

ColorInit ==
    /\ CaptureInitFor({})
    /\ StopIdle
    /\ BrandIdle
    /\ LaunchIdle
    /\ colorRaw \in ColorInputs
    /\ colorOut = <<>>
    /\ colorDone = FALSE

ColorNext == NormalizeColor

SpecColor == ColorInit /\ [][ColorNext]_vars

----------------------------------------------------------------------------
(* decorateClawdProfile (src/unnamed/part_000).                            *)
(*                                                                         *)
(* A JSON value is the set of its nodes: a node is a path of keys from the *)
(* root, the kind of the value there, and the value of a leaf (a string as *)
(* the sequence of its characters).  Kinds: "obj", "arr", "str", "num",    *)
(* "bool", "null", "huge" (a number literal beyond the range of a double), *)
(* and in memory "inf" (what JSON.parse makes of such a literal).  An      *)
(* array is a leaf: setDeep never goes into one.                           *)
(* A file is missing, holds text that is not JSON, or holds a JSON value.  *)

Node(p, k, v) == [path |-> p, kind |-> k, val |-> v]

IsPrefix(p, q) == Len(p) <= Len(q) /\ SubSeq(q, 1, Len(p)) = p

\* {}
EmptyObject == {Node(<<>>, "obj", <<>>)}

KindAt(tree, p) ==
    IF \E n \in tree : n.path = p
    THEN (CHOOSE n \in tree : n.path = p).kind
    ELSE "undefined"

MissingFile == [state |-> "missing", tree |-> {}]

GarbageFile == [state |-> "garbage", tree |-> {}]

JsonFile(tree) == [state |-> "json", tree |-> tree]

\* JSON.parse: a number literal beyond the range of a double is Infinity
JSONParse(tree) ==
    {IF n.kind = "huge" THEN Node(n.path, "inf", n.val) ELSE n : n \in tree}

\* JSON.stringify: Infinity is written as null; of an array only the indexed
\* elements are written, properties set on it are not
JSONStringify(tree) ==
    IF KindAt(tree, <<>>) = "arr"
    THEN {n \in tree : n.path = <<>>}
    ELSE {IF n.kind = "inf" THEN Node(n.path, "null", <<>>) ELSE n : n \in tree}

\* safeReadJson: null for a missing file, for text that does not parse and
\* for a value that is not an object (typeof [] is "object")
safeReadJson(file) ==
    IF file.state # "json" THEN None
    ELSE IF KindAt(file.tree, <<>>) \notin {"obj", "arr"} THEN None
    ELSE Some(JSONParse(file.tree))

\* safeWriteJson, when mkdirSync and writeFileSync succeed
safeWriteJson(data) == JsonFile(JSONStringify(data))

\* node[key] = value: whatever was there goes, with all below it
Assign(tree, p, k, v) ==
    {n \in tree : ~IsPrefix(p, n.path)} \cup {Node(p, k, v)}

\* (mutant) setDeep that makes a fresh object at every key of the path
NeedsFreshObjectAlways(tree, p) == TRUE

\* typeof next !== "object" || next === null || Array.isArray(next)
NeedsFreshObject(tree, p) == KindAt(tree, p) # "obj"

\* the loop of setDeep over keys.slice(0, -1), from the i-th key on
RECURSIVE setDeepWalk(_, _, _)
setDeepWalk(tree, keys, i) ==
    IF i >= Len(keys) THEN tree
    ELSE setDeepWalk(IF NeedsFreshObject(tree, SubSeq(keys, 1, i))
                     THEN Assign(tree, SubSeq(keys, 1, i), "obj", <<>>)
                     ELSE tree,
                     keys, i + 1)

setDeep(tree, keys, value) ==
    Assign(setDeepWalk(tree, keys, 1), keys, "str", value)

\* DEFAULT_CLAWD_BROWSER_PROFILE_NAME
DesiredName == <<"c", "l", "a", "w", "d">>

\* (opts?.color ?? DEFAULT_CLAWD_BROWSER_COLOR).toUpperCase()
DesiredColor(color) ==
    ToUpperCase(IF IsSome(color) THEN Get(color) ELSE DefaultColor)

InfoCacheDefault == <<"profile", "info_cache", "Default">>

\* the five setDeep calls on Local State, in their order
DecorateLocalState(tree, name, color) ==
    LET t1 == setDeep(tree, InfoCacheDefault \o <<"name">>, name)
        t2 == setDeep(t1, InfoCacheDefault \o <<"shortcut_name">>, name)
        t3 == setDeep(t2, InfoCacheDefault \o <<"user_name">>, name)
        t4 == setDeep(t3, InfoCacheDefault \o <<"profile_color">>, color)
    IN  setDeep(t4, InfoCacheDefault \o <<"user_color">>, color)

\* the three setDeep calls on Preferences, in their order
DecoratePreferences(tree, name, color) ==
    LET t1 == setDeep(tree, <<"profile", "name">>, name)
        t2 == setDeep(t1, <<"profile", "profile_color">>, color)
    IN  setDeep(t2, <<"profile", "user_color">>, color)

\* safeReadJson(path) ?? {}
ReadOrEmpty(file) ==
    IF IsSome(safeReadJson(file)) THEN Get(safeReadJson(file)) ELSE EmptyObject

\* how a call can go: either safeWriteJson may throw; the marker write may
\* fail, which is ignored
DecorateOutcomes == {"returns", "throwsAtLocalState", "throwsAtPreferences"}

\* decorateClawdProfile(userDataDir, opts), on the files only
Decorate(outcome, markerWritten) ==
    /\ brandCalls' = brandCalls + 1
    /\ brandRuns' = IF outcome = "returns" THEN brandRuns + 1 ELSE brandRuns
    /\ brandThrew' = (outcome # "returns")
    /\ localState' =
          IF outcome = "throwsAtLocalState" THEN localState
          ELSE safeWriteJson(DecorateLocalState(ReadOrEmpty(localState),
                                                DesiredName,
                                                DesiredColor(brandColor)))
    /\ preferences' =
          IF outcome # "returns" THEN preferences
          ELSE safeWriteJson(DecoratePreferences(ReadOrEmpty(preferences),
                                                 DesiredName,
                                                 DesiredColor(brandColor)))
    /\ marker' = (marker \/ (outcome = "returns" /\ markerWritten))
    /\ UNCHANGED <<brandColor, prior>>

\* the calls of decorateClawdProfile on one profile directory
MaxBrandCalls == 3

\* a leaf of each kind that is not an object
LeafOf(p, k) ==
    CASE k = "str" -> Node(p, "str", <<"x">>)
      [] k = "named" -> Node(p, "str", DesiredName)
      [] k = "huge" -> Node(p, "huge", <<"1", "e", "4", "0", "0">>)
      [] k = "arr" -> Node(p, "arr", <<"[", "1", "]">>)
      [] OTHER -> Node(p, "null", <<>>)

LeafKinds == {"str", "named", "huge", "arr", "null"}

\* objects along the keys of `chain` down to depth d
Spine(chain, d) == {Node(SubSeq(chain, 1, i), "obj", <<>>) : i \in 0..d}

\* a key "other" beside the chain at depth j: a string, a number beyond the
\* range of a double, or an object with a key of its own
Beside(chain, j, k) ==
    LET p == SubSeq(chain, 1, j) \o <<"other">>
    IN  IF k = "obj"
        THEN {Node(p, "obj", <<>>), Node(p \o <<"name">>, "str", <<"x">>)}
        ELSE {LeafOf(p, k)}

\* the JSON values a preference file may hold before the first call, seen
\* from the keys of `chain`: objects down to some depth, there nothing, a
\* value that is no object, or (at the end of the chain) an object with a
\* key of its own; beside the chain at most one unrelated key
TreesAlong(chain) ==
    {{LeafOf(<<>>, k)} : k \in LeafKinds}
    \cup
    UNION {
        {Spine(chain, d) \cup below \cup beside :
            below \in
                IF d < Len(chain)
                THEN {{}} \cup {{LeafOf(SubSeq(chain, 1, d + 1), k)} :
                                   k \in LeafKinds}
                ELSE {{}, {Node(chain \o <<"first">>, "str", <<"x">>)}},
            beside \in
                {{}} \cup {Beside(chain, j, k) :
                              j \in 0..d, k \in {"str", "huge", "obj"}}} :
        d \in 0..Len(chain)}

FilesAlong(chain) ==
    {MissingFile, GarbageFile} \cup {JsonFile(t) : t \in TreesAlong(chain)}

\* the other file meanwhile: the two are read and written independently
PlainFiles == {MissingFile, GarbageFile, JsonFile(EmptyObject)}

\* opts.color: absent, or a color in lower case
BrandColors == {None, Some(<<"#", "a", "b", "c", "d", "e", "f">>)}

BrandCall(outcome, markerWritten) ==
    /\ brandCalls < MaxBrandCalls
    /\ Decorate(outcome, markerWritten)
    /\ UNCHANGED notBrandVars

BrandInit ==
    /\ CaptureInitFor({})
    /\ StopIdle
    /\ ColorIdle
    /\ LaunchIdle
    /\ \/ /\ localState \in FilesAlong(InfoCacheDefault \o <<"name">>)
          /\ preferences \in PlainFiles
       \/ /\ localState \in PlainFiles
          /\ preferences \in FilesAlong(<<"profile", "name">>)
    /\ marker = FALSE
    /\ brandColor \in BrandColors
    /\ brandCalls = 0
    /\ brandRuns = 0
    /\ brandThrew = FALSE
    /\ prior = <<localState, preferences>>

BrandNext ==
    \E outcome \in DecorateOutcomes, markerWritten \in BOOLEAN :
        BrandCall(outcome, markerWritten)

SpecBrand == BrandInit /\ [][BrandNext]_vars

----------------------------------------------------------------------------
(* launchClawdChrome (src/unnamed/part_000).  The function is async: its   *)
(* body between two awaits is one step.  The spawned processes, the files  *)
(* they create and the clock are the environment; a deadline is a loop     *)
(* head that may find the time up after any number of sleeps.              *)

\* the calls of launchClawdChrome
MaxLaunches == 2

\* the sleeps of the loop that waits for the preference files
MaxPrefsPolls == 2

\* the sleeps of the loop that waits for the debug endpoint
MaxReadyPolls == 2

\* the candidates of findChromeExecutableMac, in their order
Candidates ==
    <<"canary", "canary", "chromium", "chromium", "chrome", "chrome">>

\* findChromeExecutableMac: the first candidate whose path exists
findChromeExecutableMac(present) ==
    IF \E i \in 1..Len(Candidates) : i \in present
    THEN LET first == CHOOSE i \in 1..Len(Candidates) :
                          i \in present /\ \A j \in 1..(i - 1) : j \notin present
         IN  Some([kind |-> Candidates[first], path |-> first])
    ELSE None

\* process.platform === "darwin" ? findChromeExecutableMac() : null
ExeFor(platform, present) ==
    IF platform = "darwin" THEN findChromeExecutableMac(present) ELSE None

Platforms == {"darwin", "linux"}

\* which of the candidate paths exist
PresentSets == {{}, {1}, {2, 5}, {4, 6}, {6}}

\* (mutant) only a failing port check stops the launch
LaunchFailsOnPortOnly(portOk, e) == ~portOk

\* ensurePortAvailable threw, or `if (!exe) throw`
LaunchFails(portOk, e) == ~portOk \/ ~IsSome(e)

\* (mutant) the profile is decorated on every launch
NeedsDecorateAlways(m) == TRUE

\* const needsDecorate = !exists(marker)
NeedsDecorate(m) == ~m

\* (mutant) an error of decorateClawdProfile reaches the caller
DecorateSurfacesError(threw) == threw

\* try { decorateClawdProfile(...) } catch (err) { logWarn(...) }
DecorateSurfaces(threw) == FALSE

\* a process as spawn() starts it
Spawned ==
    [state |-> "running", sigterm |-> FALSE, sigkill |-> FALSE,
     serving |-> FALSE]

\* proc.kill(sig): the signal reaches a process that has not exited
Kill(ps, i, sig) ==
    IF ps[i].state # "running" THEN ps
    ELSE IF sig = "SIGKILL" THEN [ps EXCEPT ![i].sigkill = TRUE]
    ELSE [ps EXCEPT ![i].sigterm = TRUE]

\* isChromeReachable: a process answers /json/version on the debug port
LaunchReachable(ps) ==
    \E i \in 1..Len(ps) : ps[i].state = "running" /\ ps[i].serving

\* exists(localStatePath) && exists(preferencesPath)
PrefsExist == localState.state # "missing" /\ preferences.state # "missing"

\* launchClawdChrome is called; it awaits ensurePortAvailable
LaunchCall ==
    /\ lpc = "idle"
    /\ launches < MaxLaunches
    /\ launches' = launches + 1
    /\ lpc' = "portCheck"
    /\ lOutcome' = "none"
    /\ guard' = "none"
    /\ exe' = None
    /\ needsDecorate' = FALSE
    /\ markerSeen' = FALSE
    /\ procs' = <<>>
    /\ probes' = 0
    /\ loopReachable' = FALSE
    /\ finalReachable' = FALSE
    /\ lBrandCalls' = 0
    /\ brandRunning' = FALSE
    /\ prefsPolls' = 0
    /\ readyPolls' = 0
    /\ UNCHANGED <<markedAt, brandVars, notLaunchVars>>

\* ensurePortAvailable has settled; the body runs on to its next await: the
\* executable, the marker, the first spawn, and then either the head of the
\* preference-file loop or the head of the readiness loop
PortGuardDone(portOk, platform, present) ==
    /\ lpc = "portCheck"
    /\ guard' = IF portOk THEN "ok" ELSE "threw"
    /\ exe' = IF portOk THEN ExeFor(platform, present) ELSE None
    /\ IF LaunchFails(portOk, exe')
       THEN /\ lpc' = "idle"
            /\ lOutcome' = IF portOk THEN "noBrowser" ELSE "portError"
            /\ UNCHANGED <<needsDecorate, markerSeen, procs, probes>>
       ELSE /\ needsDecorate' = NeedsDecorate(marker)
            /\ markerSeen' = marker
            /\ UNCHANGED lOutcome
            /\ IF needsDecorate'
               THEN IF PrefsExist
                    THEN /\ procs' = Kill(<<Spawned>>, 1, "SIGTERM")
                         /\ lpc' = "termWait"
                         /\ UNCHANGED probes
                    ELSE /\ procs' = <<Spawned>>
                         /\ lpc' = "prefsSleep"
                         /\ UNCHANGED probes
               ELSE /\ procs' = <<Spawned>>
                    /\ lpc' = "readyProbe"
                    /\ probes' = probes + 1
    /\ UNCHANGED <<launches, loopReachable, finalReachable, lBrandCalls,
                   brandRunning, prefsPolls, readyPolls, markedAt>>
    /\ UNCHANGED <<brandVars, notLaunchVars>>

\* a 100 ms sleep of the preference-file loop is over; at the loop head the
\* 5 s may be up or both files may exist: SIGTERM, then the 300 ms wait
PrefsSleepDone(expired) ==
    /\ lpc = "prefsSleep"
    /\ expired \/ PrefsExist \/ prefsPolls + 1 < MaxPrefsPolls
    /\ prefsPolls' = prefsPolls + 1
    /\ IF expired \/ PrefsExist
       THEN /\ procs' = Kill(procs, 1, "SIGTERM")
            /\ lpc' = "termWait"
       ELSE UNCHANGED <<procs, lpc>>
    /\ UNCHANGED <<launches, lOutcome, guard, exe, needsDecorate, markerSeen,
                   probes, loopReachable, finalReachable, lBrandCalls,
                   brandRunning, readyPolls, markedAt>>
    /\ UNCHANGED <<brandVars, notLaunchVars>>

\* the 300 ms wait is over: decorate inside try/catch, spawn again, and the
\* head of the readiness loop issues its first probe
TermWaitDone(outcome, markerWritten) ==
    /\ lpc = "termWait"
    /\ Decorate(outcome, markerWritten)
    /\ lBrandCalls' = lBrandCalls + 1
    /\ brandRunning' =
          (brandRunning \/ \E i \in 1..Len(procs) : procs[i].state = "running")
    /\ markedAt' = IF marker' /\ ~marker THEN launches ELSE markedAt
    /\ IF DecorateSurfaces(outcome # "returns")
       THEN /\ lpc' = "idle"
            /\ lOutcome' = "brandError"
            /\ UNCHANGED <<procs, probes>>
       ELSE /\ procs' = Append(procs, Spawned)
            /\ lpc' = "readyProbe"
            /\ probes' = probes + 1
            /\ UNCHANGED lOutcome
    /\ UNCHANGED <<launches, guard, exe, needsDecorate, markerSeen,
                   loopReachable, finalReachable, prefsPolls, readyPolls>>
    /\ UNCHANGED notLaunchVars

\* a probe of the readiness loop has answered: reachable breaks the loop,
\* and the probe after the loop is issued; otherwise sleep 200 ms
ReadyProbeDone ==
    /\ lpc = "readyProbe"
    /\ IF LaunchReachable(procs)
       THEN /\ loopReachable' = TRUE
            /\ lpc' = "finalProbe"
            /\ probes' = probes + 1
       ELSE /\ lpc' = "readySleep"
            /\ UNCHANGED <<loopReachable, probes>>
    /\ UNCHANGED <<launches, lOutcome, guard, exe, needsDecorate, markerSeen,
                   procs, finalReachable, lBrandCalls, brandRunning,
                   prefsPolls, readyPolls, markedAt>>
    /\ UNCHANGED <<brandVars, notLaunchVars>>

\* a 200 ms sleep of the readiness loop is over; at the loop head the 15 s
\* may be up (the probe after the loop is issued) or not (the next probe)
ReadySleepDone(expired) ==
    /\ lpc = "readySleep"
    /\ expired \/ readyPolls + 1 < MaxReadyPolls
    /\ readyPolls' = readyPolls + 1
    /\ probes' = probes + 1
    /\ lpc' = IF expired THEN "finalProbe" ELSE "readyProbe"
    /\ UNCHANGED <<launches, lOutcome, guard, exe, needsDecorate, markerSeen,
                   procs, loopReachable, finalReachable, lBrandCalls,
                   brandRunning, prefsPolls, markedAt>>
    /\ UNCHANGED <<brandVars, notLaunchVars>>

\* the probe after the loop has answered: SIGKILL and throw, or return
FinalProbeDone ==
    /\ lpc = "finalProbe"
    /\ finalReachable' = LaunchReachable(procs)
    /\ IF LaunchReachable(procs)
       THEN /\ lOutcome' = "returned"
            /\ UNCHANGED procs
       ELSE /\ lOutcome' = "timeout"
            /\ procs' = Kill(procs, Len(procs), "SIGKILL")
    /\ lpc' = "idle"
    /\ UNCHANGED <<launches, guard, exe, needsDecorate, markerSeen, probes,
                   loopReachable, lBrandCalls, brandRunning, prefsPolls,
                   readyPolls, markedAt>>
    /\ UNCHANGED <<brandVars, notLaunchVars>>

\* a spawned process ends: by a signal, by itself, or because another
\* instance already runs on the profile
LaunchProcExit(i) ==
    /\ procs[i].state = "running"
    /\ procs' = [procs EXCEPT ![i].state = "exited", ![i].serving = FALSE]
    /\ UNCHANGED <<lpc, launches, lOutcome, guard, exe, needsDecorate,
                   markerSeen, probes, loopReachable, finalReachable,
                   lBrandCalls, brandRunning, prefsPolls, readyPolls,
                   markedAt>>
    /\ UNCHANGED <<brandVars, notLaunchVars>>

\* a spawned process binds the debug port, which no other process holds
LaunchProcServes(i) ==
    /\ procs[i].state = "running"
    /\ ~LaunchReachable(procs)
    /\ procs' = [procs EXCEPT ![i].serving = TRUE]
    /\ UNCHANGED <<lpc, launches, lOutcome, guard, exe, needsDecorate,
                   markerSeen, probes, loopReachable, finalReachable,
                   lBrandCalls, brandRunning, prefsPolls, readyPolls,
                   markedAt>>
    /\ UNCHANGED <<brandVars, notLaunchVars>>

\* a running browser creates a preference file that is missing
ChromeCreatesPrefs(i, which) ==
    /\ procs[i].state = "running"
    /\ IF which = "Local State"
       THEN /\ localState.state = "missing"
            /\ localState' = JsonFile(EmptyObject)
            /\ UNCHANGED preferences
       ELSE /\ preferences.state = "missing"
            /\ preferences' = JsonFile(EmptyObject)
            /\ UNCHANGED localState
    /\ UNCHANGED <<marker, brandColor, brandCalls, brandRuns, brandThrew,
                   prior>>
    /\ UNCHANGED <<launchVars, notLaunchVars>>

\* a profile directory that is fresh or was used before, with or without
\* the marker; resolved.color is the default color
LaunchInit ==
    /\ CaptureInitFor({})
    /\ StopIdle
    /\ ColorIdle
    /\ LaunchIdle
    /\ localState \in {MissingFile, JsonFile(EmptyObject)}
    /\ preferences = localState
    /\ marker \in BOOLEAN
    /\ brandColor = Some(DefaultColor)
    /\ brandCalls = 0
    /\ brandRuns = 0
    /\ brandThrew = FALSE
    /\ prior = <<localState, preferences>>

LaunchNext ==
    \/ LaunchCall
    \/ \E portOk \in BOOLEAN, platform \in Platforms, present \in PresentSets :
          PortGuardDone(portOk, platform, present)
    \/ \E expired \in BOOLEAN : PrefsSleepDone(expired)
    \/ \E outcome \in DecorateOutcomes, markerWritten \in BOOLEAN :
          TermWaitDone(outcome, markerWritten)
    \/ ReadyProbeDone
    \/ \E expired \in BOOLEAN : ReadySleepDone(expired)
    \/ FinalProbeDone
    \/ \E i \in 1..Len(procs) : LaunchProcExit(i)
    \/ \E i \in 1..Len(procs) : LaunchProcServes(i)
    \/ \E i \in 1..Len(procs), which \in {"Local State", "Preferences"} :
          ChromeCreatesPrefs(i, which)

SpecLaunch == LaunchInit /\ [][LaunchNext]_vars

----------------------------------------------------------------------------
(* Properties of captureScreenshotPng, checked under SpecCapture.          *)

CaptureMethod == "Page.captureScreenshot"

IsClosing(c) == wsState[c] \in {"closing", "closed"}

\* C1: within one connection every command gets an id strictly greater than
\* all ids sent before it, the first being 1, and a frame with id k settles
\* only the promise of the command that was registered under k: every
\* promise a message handler settled was settled by a frame carrying the id
\* its command was sent with, and every entry of the pending table is filed
\* under the id of its own command.
C1_UniqueIdsAndRouting ==
    \A c \in conns :
        /\ Len(log[c]) > 0 => log[c][1].id = 1
        /\ \A i, j \in 1..Len(log[c]) : i < j => log[c][i].id < log[c][j].id
        /\ \A p \in 1..Len(settled[c]) :
               IsSome(settled[c][p].by) => Get(settled[c][p].by) = log[c][p].id
        /\ \A k \in DOMAIN pending[c] : log[c][pending[c][k]].id = k

\* a third command was sent and a frame with its id resolved it
C1_Witness ==
    \E c \in conns :
        /\ Len(log[c]) = 3
        /\ settled[c][3].how = "resolved"
        /\ settled[c][3].by = Some(3)

\* C2: when the close event fires, every command pending at that moment is
\* rejected with the connection-closed error and the pending table is empty
\* right after the handler.
C2_CloseRejectsAllPending ==
    [][\A c \in conns :
          (wsState[c] # "closed" /\ wsState'[c] = "closed") =>
              /\ DOMAIN pending'[c] = {}
              /\ \A k \in DOMAIN pending[c] :
                     /\ settled'[c][pending[c][k]].how = "rejected"
                     /\ settled'[c][pending[c][k]].err = ErrorClosed]_vars

\* the close event found a command pending and rejected it
C2_Witness ==
    \E c \in conns : \E p \in 1..Len(settled[c]) :
        /\ wsState[c] = "closed"
        /\ settled[c][p].how = "rejected"
        /\ settled[c][p].err = ErrorClosed
        /\ DOMAIN pending[c] = {}

\* C3: no command is registered as pending on a connection whose close event
\* has already fired (nothing can settle such a command any more, so the call
\* awaiting it would wait forever).
C3_NoPendingOnClosedConnection ==
    \A c \in conns : wsState[c] = "closed" => DOMAIN pending[c] = {}

\* C4: once the call has failed, the pending table is empty and the
\* connection is closing or closed.
C4_FailureClosesConnection ==
    \A c \in conns :
        pc[c] = "failed" => (DOMAIN pending[c] = {} /\ IsClosing(c))

\* the capture command's promise was resolved and the function went on
CaptureResolved(c) ==
    /\ Len(log[c]) > 0
    /\ log[c][Len(log[c])].method = CaptureMethod
    /\ settled[c][Len(log[c])].how = "resolved"
    /\ pc[c] # "awaitCapture"

\* a resolved value without a data payload: undefined, no data field, or ""
NoPayload(r) ==
    \/ r = None
    \/ r[1].data = None
    \/ r[1].data = Some("")

\* C5: if the capture command resolves without a data payload, the call
\* fails with the capture-failed error, returns no bytes, and the connection
\* is closing or closed when the error reaches the caller; bytes are only
\* ever returned from a response that carried a payload.
C5_MissingDataFails ==
    \A c \in conns :
        /\ (CaptureResolved(c) /\ NoPayload(result[c])) =>
               /\ pc[c] = "failed"
               /\ thrown[c] = ErrorMissing
               /\ returned[c] = None
               /\ IsClosing(c)
        /\ returned[c] # None => (CaptureResolved(c) /\ ~NoPayload(result[c]))

\* the capture command resolved with an empty data string and the call failed
C5_Witness ==
    \E c \in conns :
        /\ CaptureResolved(c)
        /\ result[c] # None
        /\ result[c][1].data = Some("")
        /\ thrown[c] = ErrorMissing

\* the commands of a call, in order
ExpectedCommands(fp) ==
    IF fp THEN <<"Page.enable", "Page.getLayoutMetrics", CaptureMethod>>
    ELSE <<"Page.enable", CaptureMethod>>

\* C6: the commands sent are a prefix of Page.enable, Page.getLayoutMetrics
\* (exactly when fullPage), Page.captureScreenshot; none is sent before the
\* connection opened; each is sent only after the previous one resolved; at
\* most one is pending.
C6_StrictCommandOrder ==
    \A c \in conns :
        /\ Len(log[c]) <= Len(ExpectedCommands(fullPage[c]))
        /\ \A i \in 1..Len(log[c]) :
               log[c][i].method = ExpectedCommands(fullPage[c])[i]
        /\ Len(log[c]) > 0 => openPromise[c] = "resolved"
        /\ \A i \in 1..(Len(log[c]) - 1) : settled[c][i].how = "resolved"
        /\ Cardinality(DOMAIN pending[c]) <= 1
        /\ pc[c] = "returned" =>
               Len(log[c]) = Len(ExpectedCommands(fullPage[c]))

\* scenario B: fullPage = false, enable then capture answered, "hello" returned
C6_Witness ==
    \E c \in conns :
        /\ ~fullPage[c]
        /\ pc[c] = "returned"
        /\ returned[c] = Some("hello")
        /\ Len(log[c]) = 2

\* the content size the layout-metrics response yields: cssContentSize if the
\* response has one, else contentSize
MetricsSize(m) ==
    IF m = None THEN None
    ELSE IF m[1].cssContentSize # None THEN m[1].cssContentSize
    ELSE m[1].contentSize

MetricsWidth(m) ==
    IF MetricsSize(m) = None \/ MetricsSize(m)[1].width = None THEN 0
    ELSE MetricsSize(m)[1].width[1]

MetricsHeight(m) ==
    IF MetricsSize(m) = None \/ MetricsSize(m)[1].height = None THEN 0
    ELSE MetricsSize(m)[1].height[1]

\* C7: the capture command carries the clip {0, 0, width, height, 1} exactly
\* when fullPage was requested and the layout-metrics response yields width
\* > 0 and height > 0; otherwise it carries no clip; and whatever the metrics
\* response was, once it resolved the capture command is sent.
C7_ClipIffFullPageAndPositiveSize ==
    \A c \in conns :
        /\ \A i \in 1..Len(log[c]) :
               log[c][i].method = CaptureMethod =>
                   log[c][i].clip =
                       IF /\ fullPage[c]
                          /\ MetricsWidth(metrics[c]) > 0
                          /\ MetricsHeight(metrics[c]) > 0
                       THEN Some([x |-> 0, y |-> 0,
                                  width |-> MetricsWidth(metrics[c]),
                                  height |-> MetricsHeight(metrics[c]),
                                  scale |-> 1])
                       ELSE None
        /\ ( /\ Len(log[c]) >= 2
             /\ log[c][2].method = "Page.getLayoutMetrics"
             /\ settled[c][2].how = "resolved"
             /\ pc[c] # "awaitMetrics" ) =>
               (Len(log[c]) = 3 /\ log[c][3].method = CaptureMethod)

\* scenario C: fullPage, metrics say 800 x 0, the capture command has no clip
C7_Witness ==
    \E c \in conns :
        /\ fullPage[c]
        /\ metrics[c] # None
        /\ metrics[c][1].cssContentSize =
               Some([width |-> Some(800), height |-> Some(0)])
        /\ Len(log[c]) = 3
        /\ log[c][3].clip = None

\* C8: a promise settled by the message handler is no longer in the pending
\* table, is rejected whenever the frame carried an error object, and is
\* resolved only when the frame carried none.
C8_ErrorFrameRejects ==
    \A c \in conns : \A p \in 1..Len(settled[c]) :
        IsSome(settled[c][p].by) =>
            /\ \A k \in DOMAIN pending[c] : pending[c][k] # p
            /\ settled[c][p].byError # None => settled[c][p].how = "rejected"
            /\ settled[c][p].how = "resolved" => settled[c][p].byError = None

\* C18: a frame the handler drops (unparseable, without a numeric id, or with
\* an id no command is pending under) changes nothing of its connection: the
\* pending table, the id counter, the socket state, the promises (so every
\* in-flight command is still pending and still filed under its id) and the
\* position of the call are as before.
C18_DroppedFramesChangeNothing ==
    [][\A c \in conns :
          lastDrop'[c] # lastDrop[c] =>
              /\ pending'[c] = pending[c]
              /\ nextId'[c] = nextId[c]
              /\ wsState'[c] = wsState[c]
              /\ settled'[c] = settled[c]
              /\ awaitValue'[c] = awaitValue[c]
              /\ log'[c] = log[c]
              /\ pc'[c] = pc[c]
              /\ thrown'[c] = thrown[c]]_vars

\* a frame with an unmatched id was dropped, and the first command was
\* resolved by the frame carrying its own id
C18_Witness ==
    \E c \in conns :
        /\ lastDrop[c] = "unmatched"
        /\ Len(log[c]) = 1
        /\ settled[c][1].how = "resolved"
        /\ settled[c][1].by = Some(1)

\* everything that belongs to one Capture call
ConnState(c) ==
    <<wsState[c], openPromise[c], nextId[c], pending[c], log[c], settled[c],
      awaitValue[c], pc[c], metrics[c], clip[c], result[c], thrown[c],
      returned[c], lastDrop[c]>>

\* C19 (under SpecCaptureTwo): a step that changes the state of one call (a
\* frame, a close event, a continuation) leaves the state of every other
\* call as it was, pending table and promises included.
C19_NoCrossTalk ==
    [][\A c1, c2 \in conns :
          (c1 # c2 /\ ConnState(c1)' # ConnState(c1)) =>
              ConnState(c2)' = ConnState(c2)]_vars

\* both calls sent a command with id 1; a frame with id 1 resolved the one
\* of the first call, the one of the second is still pending under id 1
C19_Witness ==
    \E c1, c2 \in conns :
        /\ c1 # c2
        /\ Len(log[c1]) >= 1 /\ Len(log[c2]) >= 1
        /\ log[c1][1].id = 1 /\ log[c2][1].id = 1
        /\ settled[c1][1].how = "resolved"
        /\ settled[c2][1].how = "pending"
        /\ 1 \in DOMAIN pending[c2]

----------------------------------------------------------------------------
(* Properties of normalizeHexColor, checked under SpecColor.               *)

\* the upper-case form of every hexadecimal digit
HexUpper ==
    [ch \in {"0", "1", "2", "3", "4", "5", "6", "7", "8", "9",
             "A", "B", "C", "D", "E", "F"} |-> ch]
    @@ ("a" :> "A") @@ ("b" :> "B") @@ ("c" :> "C")
    @@ ("d" :> "D") @@ ("e" :> "E") @@ ("f" :> "F")

IsSixHex(s) == Len(s) = 6 /\ \A i \in 1..6 : s[i] \in DOMAIN HexUpper

\* the six digits of a valid color, with or without the leading '#'
ColorDigits(s) ==
    IF IsSixHex(s) THEN Some(s)
    ELSE IF Len(s) = 7 /\ s[1] = "#" /\ IsSixHex(SubSeq(s, 2, 7))
    THEN Some(SubSeq(s, 2, 7))
    ELSE None

\* what the specification promises for the string s
ExpectedColor(s) ==
    IF IsSome(ColorDigits(s))
    THEN <<"#">> \o [i \in 1..6 |-> HexUpper[Get(ColorDigits(s))[i]]]
    ELSE <<"#", "F", "F", "4", "5", "0", "0">>

\* s without the blanks around it
Stripped(s) ==
    LET inked == {i \in 1..Len(s) : s[i] # " "}
    IN  IF inked = {} THEN <<>>
        ELSE SubSeq(s, CHOOSE i \in inked : \A k \in inked : i <= k,
                       CHOOSE j \in inked : \A k \in inked : k <= j)

\* C15 as stated: a valid 6-hex-digit color, with or without '#', in any
\* case, gives its upper-case '#RRGGBB' form, and every other input gives
\* the default color.
C15_NormalizesExactInput ==
    colorDone =>
        colorOut = ExpectedColor(IF IsSome(colorRaw) THEN Get(colorRaw) ELSE <<>>)

\* C15, amended: the input is judged after the white space around it is
\* trimmed; a valid 6-hex-digit color (with or without '#', any case) then
\* gives its upper-case '#RRGGBB' form, every other input (undefined, empty
\* or blank, wrong length, non-hex characters) gives the default color.
C15_NormalizesTrimmedInput ==
    colorDone =>
        colorOut = ExpectedColor(IF IsSome(colorRaw)
                                 THEN Stripped(Get(colorRaw)) ELSE <<>>)

\* a lower-case color without '#', with a blank before it, was normalized
C15_Witness ==
    /\ colorDone
    /\ colorRaw = Some(<<" ", "a", "F", "a", "a", "F", "a">>)
    /\ colorOut = <<"#", "A", "F", "A", "A", "F", "A">>

----------------------------------------------------------------------------
(* Properties of decorateClawdProfile, checked under SpecBrand.            *)

\* the keys the Brander sets
LocalStateBranded ==
    {<<"profile", "info_cache", "Default", k>> :
        k \in {"name", "shortcut_name", "user_name", "profile_color",
               "user_color"}}

PreferencesBranded ==
    {<<"profile", k>> : k \in {"name", "profile_color", "user_color"}}

\* p leads to a branded key, is one, or lies below one
OnBrandingPath(p, branded) ==
    \E b \in branded :
        \/ Len(p) <= Len(b) /\ SubSeq(b, 1, Len(p)) = p
        \/ Len(b) < Len(p) /\ SubSeq(p, 1, Len(b)) = b

\* n is reached from the root through keys of objects
IsKeyOf(tree, n) ==
    /\ Len(n.path) > 0
    /\ \A i \in 0..(Len(n.path) - 1) :
          \E m \in tree : m.path = SubSeq(n.path, 1, i) /\ m.kind = "obj"

\* every key of `before` off the branding paths is a key of `after`, with
\* the value it had (a number no double can hold is read as Infinity and
\* written back as null: the key stays)
KeysKept(before, after, branded) ==
    before.state = "json" =>
        \A n \in before.tree :
            (IsKeyOf(before.tree, n) /\ ~OnBrandingPath(n.path, branded)) =>
                /\ after.state = "json"
                /\ \E m \in after.tree : m.path = n.path
                /\ n.kind # "huge" => n \in after.tree

\* C16: once a call of the Brander has returned, a further call with the
\* same name and color leaves both preference files exactly as they are
\* (whatever the files held before the first call), and every call that
\* returns keeps the keys that are not on a branding path.
C16_BranderIdempotent ==
    [][brandCalls' # brandCalls =>
          /\ brandRuns >= 1 =>
                (localState' = localState /\ preferences' = preferences)
          /\ brandRuns' # brandRuns =>
                /\ KeysKept(localState, localState', LocalStateBranded)
                /\ KeysKept(preferences, preferences', PreferencesBranded)]_vars

\* Local State held a string under profile.info_cache and an unrelated key
\* profile.other; after two calls the name is set and the key is still there
C16_Witness ==
    /\ brandRuns = 2
    /\ KindAt(prior[1].tree, <<"profile", "info_cache">>) = "str"
    /\ [path |-> <<"profile", "other">>, kind |-> "str", val |-> <<"x">>]
          \in prior[1].tree \cap localState.tree
    /\ [path |-> <<"profile", "info_cache", "Default", "name">>,
         kind |-> "str", val |-> <<"c", "l", "a", "w", "d">>]
          \in localState.tree

----------------------------------------------------------------------------
(* Properties of launchClawdChrome, checked under SpecLaunch.              *)

\* the call is over and got past the port and executable checks
LaunchEnded == lpc = "idle" /\ lOutcome \in {"returned", "timeout"}

\* C11: when Launch has failed because the readiness deadline elapsed, every
\* process it spawned has terminated or has been sent SIGKILL.
C11_NoSurvivorAfterTimeout ==
    lOutcome = "timeout" =>
        \A i \in 1..Len(procs) : procs[i].state = "exited" \/ procs[i].sigkill

\* C12: a Launch that got past the checks returns the process if and only
\* if a probe inside the polling loop reported reachable, and fails with the
\* timeout only when no probe inside the loop did.
C12_ReturnsIffLoopProbeReachable ==
    LaunchEnded => (lOutcome = "returned" <=> loopReachable)

\* C13: when the port check threw or no executable was found, the call is
\* over with that error and has spawned no process, issued no probe and
\* not invoked the Brander.
C13_EarlyFailureHasNoSideEffect ==
    (guard = "threw" \/ (guard = "ok" /\ exe = <<>>)) =>
        /\ lpc = "idle"
        /\ lOutcome = IF guard = "threw" THEN "portError" ELSE "noBrowser"
        /\ Len(procs) = 0
        /\ probes = 0
        /\ lBrandCalls = 0

\* on a platform without a supported browser the second call failed too,
\* with no process spawned
C13_Witness ==
    /\ launches = 2
    /\ guard = "ok"
    /\ exe = <<>>
    /\ lOutcome = "noBrowser"
    /\ procs = <<>>

\* C14: a Launch that found the marker absent has spawned two processes and
\* invoked the Brander once when it ends, one that found it present has
\* spawned one process and never invoked the Brander; and every Launch
\* after the one whose Brander wrote the marker finds it present and stays
\* on the single-spawn path.
C14_TwoSpawnsIffMarkerAbsent ==
    /\ LaunchEnded =>
          /\ Len(procs) = IF markerSeen THEN 1 ELSE 2
          /\ lBrandCalls = IF markerSeen THEN 0 ELSE 1
    /\ (markedAt > 0 /\ launches > markedAt /\ guard = "ok" /\ exe # <<>>) =>
          /\ markerSeen
          /\ Len(procs) = 1
          /\ lBrandCalls = 0

\* the first call branded the profile and wrote the marker with two spawns,
\* the second call returned after a single spawn
C14_Witness ==
    /\ markedAt = 1
    /\ launches = 2
    /\ lOutcome = "returned"
    /\ Len(procs) = 1
    /\ brandCalls = 1

\* C17: the Brander runs only while no process of this Launch is running,
\* and the second process is spawned only after the Brander has run.
C17_BrandsOnlyWhileStopped ==
    /\ ~brandRunning
    /\ Len(procs) = 2 => lBrandCalls = 1

\* C20: after the Brander threw, the second process is spawned all the same,
\* the call goes on to the readiness wait, and it ends as the probe after
\* the loop decides: never with the Brander's error.
C20_BrandFailureSwallowed ==
    (lBrandCalls = 1 /\ brandThrew) =>
        /\ Len(procs) = 2
        /\ lpc \in {"readyProbe", "readySleep", "finalProbe", "idle"}
        /\ lpc = "idle" =>
              lOutcome = IF finalReachable THEN "returned" ELSE "timeout"

\* the Brander threw at the first write and the call returned the process
C20_Witness ==
    /\ lBrandCalls = 1
    /\ brandThrew
    /\ localState.state = "missing"
    /\ lOutcome = "returned"

\* C21: when a first-run Launch (two spawns) returns, the process it returns,
\* the second one, is running and is the one answering on the debug port at
\* that moment: the probe was not answered by the first process instead.
C21_ReturnedProcessAnswers ==
    [][(lpc = "finalProbe" /\ lpc' = "idle" /\ lOutcome' = "returned"
            /\ Len(procs) = 2) =>
          (procs[2].state = "running" /\ procs[2].serving)]_vars

----------------------------------------------------------------------------
(* Properties of stopClawdChrome, checked under SpecStop.                  *)

\* C9: the forceful kill is sent only when the deadline has elapsed (every
\* probe before it having answered); in particular not right after the
\* graceful signal was delivered.
C9_EscalatesOnlyAtDeadline ==
    sigkillCalls > 0 => ~(elapsed < timeoutMs)

\* C10: a call on a process that had already exited returns at once: it is
\* not left probing or sleeping and has made no reachability probe.  (A
\* proc.kill("SIGKILL") on an exited process delivers nothing, so the probe
\* is what tells an immediate return from a run through the loop.)
C10_ExitedReturnsImmediately ==
    (calls > 0 /\ entryExited) => (spc = "idle" /\ polls = 0)

====
